---------------------------- MODULE Spec2Model ----------------------------
(***************************************************************************)
(* A model of src/src/main.rs: a terminal "digital rain".  The state is    *)
(* the State struct (trails, term_size, config), the position of main in   *)
(* its driver loop, and what has been written to the terminal.             *)
(*                                                                         *)
(* Spec        the whole program: main, State::new, tick, render,          *)
(*             read_key, clear_screen.                                     *)
(* SpecInterp  the pure function interpolate applied to bounded inputs.    *)
(***************************************************************************)
EXTENDS Integers, Sequences, FiniteSets

VARIABLES
    pc,              \* where main is (line of src/src/main.rs it is about to run)
    raw,             \* stdout is in raw mode (main.rs:263 succeeded)
    term_size,       \* State.term_size: <<width, height>>, both u16
    density_env,     \* TRAIL_DENSITY parsed as u32: <<d>>, or << >> when unset/unparsable
    charset_len,     \* number of chars in the configured rain_charset
    overflow_checks, \* build profile: TRUE = arithmetic overflow panics (debug)
    trail_density,   \* State.config.trail_density (u32)
    trails,          \* State.trails: Seq of [x, y, len, speed]
    spawned,         \* observation: slot -> the Trail that Trail::random returned for
                     \* that slot in the last State::new / tick
    frame,           \* the cell writes the last render issued, in order
    cleanup,         \* the clear_screen of main.rs:286: "none", "done", "failed"
    fault,           \* the error or panic that stopped the program, "none" otherwise
    stdin,           \* what the AsyncReader holds unread, oldest first: the bytes typed
                     \* ("q" or "other") and the failed reads of the tty ("error")
    typeahead,       \* how many bytes the user of this run lets wait unread
    unrendered,      \* observation: ticks completed since the last frame was rendered
    ic1, ic2, isteps, iout   \* SpecInterp: arguments and result of interpolate

vars == <<pc, raw, term_size, density_env, charset_len, overflow_checks,
          trail_density, trails, spawned, frame, cleanup, fault, stdin, unrendered,
          typeahead, ic1, ic2, isteps, iout>>

interpVars == <<ic1, ic2, isteps, iout>>

---------------------------------------------------------------------------
(* Program constants *)

MAX_LEN == 12
MAX_SPEED == 3
DEFAULT_TRAIL_DENSITY == 30
DEFAULT_RAIN_CHARSET_LEN == 11
ANSI_RGB_MAX == 5
ANSI_RGB_MIN == 0

PURE_GREEN == [r |-> 0, g |-> 5, b |-> 0]
DARK_GREEN == [r |-> 0, g |-> 1, b |-> 0]

(* Bounds of the model *)

\* Most bytes that wait unread in stdin, in the runs of a user who types ahead.
MaxPending == 2

\* Largest `steps` given to interpolate in SpecInterp.
MaxSteps == 12

\* How many values at each end of a random position range, and on each side of a
\* multiple of 256 inside it, the random source is let to draw.
Edge == 2

---------------------------------------------------------------------------
(* Integer conversions, as Rust's `as` performs them *)

\* `n as u8` for an integer n: the low 8 bits.
AsU8(n) == ((n % 256) + 256) % 256

\* A u32 is held as <<hi, lo>>, standing for hi * 2^31 + lo with hi \in {0, 1} and
\* lo \in 0..2^31-1: TLC's integers are 32-bit signed.
U32(n) == <<0, n>>
U32Top(lo) == <<1, lo>>

\* `d as i32` for a u32 d: two's complement, so the top bit makes it negative.
AsI32(d) == IF d[1] = 0 THEN d[2] ELSE (d[2] - 2147483647) - 1

\* i32 `/`: the quotient truncated toward zero (b # 0).
TruncDiv(a, b) ==
    LET abs(v) == IF v < 0 THEN -v ELSE v
        q == abs(a) \div abs(b)
    IN  IF (a < 0) = (b < 0) THEN q ELSE -q

\* floor of the real quotient a / b for b > 0, which is what
\* ((f2 - f1) / fsteps).floor() yields for operands of u8 size.
FloorDiv(a, b) == IF a >= 0 THEN a \div b ELSE -((-a + b - 1) \div b)

Min(a, b) == IF a < b THEN a ELSE b
Max(a, b) == IF a > b THEN a ELSE b

---------------------------------------------------------------------------
(* Colour gradient *)

\* compute_step_size without its early return for equal channels.
compute_step_size_no_equal(c1, c2, steps) ==
    LET step == FloorDiv(c2 - c1, steps)
    IN  IF step = 0 THEN 1 ELSE step

compute_step_size(c1, c2, steps) ==
    IF c1 = c2 THEN 0
    ELSE LET step == FloorDiv(c2 - c1, steps)
         IN  IF step = 0 THEN 1 ELSE step

\* clip without its upper bound.
clip_no_max(val, interpolatee_val) ==
    LET min_bound == Min(interpolatee_val, ANSI_RGB_MIN)
    IN  Max(min_bound, val)

clip(val, interpolatee_val) ==
    LET min_bound == Min(interpolatee_val, ANSI_RGB_MIN)
        max_bound == Max(interpolatee_val, ANSI_RGB_MAX)
    IN  Min(Max(min_bound, val), max_bound)

\* The result is 1-indexed here: interpolate(..)[i + 1] is the code's index i.
interpolate(c1, c2, steps) ==
    LET rdelta == compute_step_size(c1.r, c2.r, steps)
        gdelta == compute_step_size(c1.g, c2.g, steps)
        bdelta == compute_step_size(c1.b, c2.b, steps)
    IN  [k \in 1..steps |->
            LET i == k - 1
            IN  [r |-> clip(AsU8(c1.r + i * rdelta), c2.r),
                 g |-> clip(AsU8(c1.g + i * gdelta), c2.g),
                 b |-> clip(AsU8(c1.b + i * bdelta), c2.b)]]

---------------------------------------------------------------------------
(* Trail *)

Trail_new(x, y, len, speed) == [x |-> x, y |-> y, len |-> len, speed |-> speed]

\* The draws explored of gen_range(lo..hi) for a position: the values of the
\* half-open range lo..hi near its ends and near a multiple of 256.  The value drawn
\* for a position is only ever truncated, compared and added to, so a value
\* between those behaves as its neighbours do.
gen_range_pos(lo, hi) ==
    { v \in lo..(hi - 1) :
        \/ v - lo < Edge
        \/ hi - 1 - v < Edge
        \/ v % 256 < Edge
        \/ v % 256 >= 256 - Edge }

\* Trail::random with lengths drawn from 1 instead of 3.
Trail_random_short(ts) ==
    { Trail_new(AsU8(x), AsU8(y), len, speed) :
        x \in gen_range_pos(1, ts[1]), y \in gen_range_pos(1, ts[2]),
        len \in 1..(MAX_LEN - 1), speed \in 1..(MAX_SPEED - 1) }

\* Every Trail that Trail::random(term_size) returns for those draws.  gen_range
\* panics on an empty range, so the set is empty exactly when the call cannot
\* return.
Trail_random(ts) ==
    { Trail_new(AsU8(x), AsU8(y), len, speed) :
        x \in gen_range_pos(1, ts[1]), y \in gen_range_pos(1, ts[2]),
        len \in 3..(MAX_LEN - 1), speed \in 1..(MAX_SPEED - 1) }

\* is_visible with `<=` for `<`.
is_visible_le(t, ts) ==
    LET top == t.y - t.len
    IN  top <= ts[2]

is_visible(t, ts) ==
    LET top == t.y - t.len
    IN  top < ts[2]

\* The cell writes Trail::render issues for trail t, in order: offsets whose row
\* is below 1 are skipped.  The glyph drawn is not recorded.
Trail_render(t) ==
    LET interpolates == interpolate(PURE_GREEN, DARK_GREEN, AsU8(t.len))
        cell(k) == [x |-> t.x, y |-> t.y - (k - 1), color |-> interpolates[k]]
    IN  SelectSeq([k \in 1..t.len |-> cell(k)], LAMBDA c : c.y >= 1)


\* The cell writes render issues for the whole collection, trail after trail.
RECURSIVE render_cells(_)
render_cells(ts) ==
    IF ts = << >> THEN << >>
    ELSE Trail_render(Head(ts)) \o render_cells(Tail(ts))

---------------------------------------------------------------------------
(* Config and State *)

\* Config::create's trail_density for the parsed environment value.
Config_create(env) == IF env = << >> THEN U32(DEFAULT_TRAIL_DENSITY) ELSE env[1]

\* The i32 product of State::new, before the division.  The grids explored keep
\* it below 2^31, where the widening casts and the product are exact.
num_cells(ts) == ts[1] * ts[2]

\* num_trails with the quotient rounded up.
num_trails_ceil(ts, density) ==
    TruncDiv(num_cells(ts) + AsI32(density) - 1, AsI32(density))

\* State::new's num_trails, for a density whose i32 value is not 0.
num_trails(ts, density) == TruncDiv(num_cells(ts), AsI32(density))

\* tick's first pass: the slots it replaces.
respawn_slots(ts, size) == { i \in 1..Len(ts) : ~is_visible(ts[i], size) }

\* A second pass that leaves out the slots the first pass replaced.
move_slots_not_fresh(ts, slots) == (1..Len(ts)) \ slots

\* tick's second pass: the slots it advances, given those the first pass replaced.
move_slots(ts, slots) == 1..Len(ts)

\* tick's second pass applied to one trail, with the u8 sum wrapped.
advance(t) == [t EXCEPT !.y = AsU8(t.y + AsU8(t.speed))]

\* The u8 addition of the second pass overflows for this trail.
add_overflows(t) == t.y + AsU8(t.speed) > 255

---------------------------------------------------------------------------
(* The runs explored: terminal size, environment and build profile *)

Run(w, h, env, cs, oc) ==
    [size |-> <<w, h>>, env |-> env, charset |-> cs, checks |-> oc]

\* The runs in which the user types ahead, up to MaxPending unread bytes; in the
\* others a byte is read before the next one is typed.
TypesAhead(run) == run.size \in {<<6, 5>>, <<3, 3>>}

Runs ==
    { \* 2 trails in the smallest grid Trail::random accepts
      Run(2, 2, <<U32(2)>>, DEFAULT_RAIN_CHARSET_LEN, FALSE),
      \* default density, 1 trail
      Run(6, 5, << >>, DEFAULT_RAIN_CHARSET_LEN, FALSE),
      \* default density, no trail
      Run(3, 3, << >>, DEFAULT_RAIN_CHARSET_LEN, FALSE),
      \* a grid wider than a u8 column, 1 trail
      Run(258, 2, <<U32(300)>>, DEFAULT_RAIN_CHARSET_LEN, FALSE),
      \* a grid whose rows reach the end of a u8, 1 trail, both build profiles
      Run(2, 250, <<U32(500)>>, DEFAULT_RAIN_CHARSET_LEN, FALSE),
      Run(2, 250, <<U32(500)>>, DEFAULT_RAIN_CHARSET_LEN, TRUE),
      \* a 1x1 grid
      Run(1, 1, <<U32(1)>>, DEFAULT_RAIN_CHARSET_LEN, FALSE),
      \* TRAIL_DENSITY=0
      Run(80, 24, <<U32(0)>>, DEFAULT_RAIN_CHARSET_LEN, FALSE),
      \* TRAIL_DENSITY=4294967295, which is -1 as i32
      Run(80, 24, <<U32Top(2147483647)>>, DEFAULT_RAIN_CHARSET_LEN, FALSE),
      \* RAIN_CHARSET set to the empty string
      Run(2, 2, <<U32(4)>>, 0, FALSE) }

Exits == {"exit_ok", "exit_err", "panic"}

\* The `?` of main.rs:277 with the error dropped.
propagate_ignored(err, next) == next

\* The `?` operator: main returns the error, or goes on to its next step.
propagate(err, next) == IF err THEN "exit_err" ELSE next

\* The loop with the frame drawn before the state is ticked.
loop_entry_render == "render"

\* The first step of an iteration of the loop of main.rs:275.
loop_entry == "tick"

\* Any byte read ends the loop.
quit_key_any(key) == key # "none"

\* The match of main.rs:279-282: the byte that breaks the loop.
quit_key(key) == key = "q"

Init ==
    /\ \E run \in Runs :
          /\ term_size = run.size
          /\ density_env = run.env
          /\ charset_len = run.charset
          /\ overflow_checks = run.checks
          /\ typeahead = IF TypesAhead(run) THEN MaxPending ELSE 1
    /\ pc = "raw_mode"
    /\ raw = FALSE
    /\ trail_density = U32(0)
    /\ trails = << >>
    /\ spawned = << >>
    /\ frame = << >>
    /\ cleanup = "none"
    /\ fault = "none"
    /\ stdin = << >>
    /\ unrendered = 0
    /\ ic1 = PURE_GREEN /\ ic2 = PURE_GREEN /\ isteps = 0 /\ iout = << >>

inputs == <<term_size, density_env, charset_len, overflow_checks, typeahead>>

\* main.rs:263  stdout().into_raw_mode()?
into_raw_mode ==
    /\ pc = "raw_mode"
    /\ \/ raw' = TRUE /\ pc' = "terminal_size" /\ fault' = fault
       \/ raw' = FALSE /\ pc' = "exit_err" /\ fault' = "raw_mode_error"
    /\ UNCHANGED <<inputs, trail_density, trails, spawned, frame, cleanup, stdin,
                   unrendered, interpVars>>

\* main.rs:266-269  terminal_size(), panicking when it fails
terminal_size ==
    /\ pc = "terminal_size"
    /\ \/ pc' = "State_new" /\ fault' = fault
       \/ pc' = "panic" /\ fault' = "no_term_size"
    /\ UNCHANGED <<inputs, raw, trail_density, trails, spawned, frame, cleanup, stdin,
                   unrendered, interpVars>>

\* main.rs:271  State::new(term_size), with Config::create inside it
State_new ==
    /\ pc = "State_new"
    /\ trail_density' = Config_create(density_env)
    /\ IF AsI32(trail_density') = 0
       THEN pc' = "panic" /\ fault' = "divide_by_zero" /\ UNCHANGED <<trails, spawned>>
       ELSE LET n == num_trails(term_size, trail_density')
            IN  IF n > 0 /\ Trail_random(term_size) = {}
                THEN pc' = "panic" /\ fault' = "empty_range"
                     /\ UNCHANGED <<trails, spawned>>
                ELSE /\ \E f \in [1..n -> Trail_random(term_size)] :
                            trails' = f /\ spawned' = f
                     /\ pc' = "clear_screen"
                     /\ fault' = fault
    /\ UNCHANGED <<inputs, raw, frame, cleanup, stdin, unrendered, interpVars>>

\* main.rs:274  clear_screen(&mut stdout)? before the loop
clear_screen_first ==
    /\ pc = "clear_screen"
    /\ \/ pc' = loop_entry /\ fault' = fault
       \/ pc' = "exit_err" /\ fault' = "clear_error"
    /\ UNCHANGED <<inputs, raw, trail_density, trails, spawned, frame, cleanup, stdin,
                   unrendered, interpVars>>

\* main.rs:276  tick(&mut state)
tick ==
    /\ pc = "tick"
    /\ LET slots == respawn_slots(trails, term_size)
       IN  IF slots # {} /\ Trail_random(term_size) = {}
           THEN /\ pc' = "panic" /\ fault' = "empty_range"
                /\ stdin' = << >>
                /\ UNCHANGED <<trails, spawned, unrendered>>
           ELSE \E f \in [slots -> Trail_random(term_size)] :
                  LET replaced == [i \in 1..Len(trails) |->
                                      IF i \in slots THEN f[i] ELSE trails[i]]
                      moving == move_slots(replaced, slots)
                      bad == { i \in moving : add_overflows(replaced[i]) }
                  IN  /\ spawned' = f
                      /\ IF overflow_checks /\ bad # {}
                         THEN \* the move pass panics at the first overflowing slot
                              LET stop == CHOOSE i \in bad : \A j \in bad : i <= j
                              IN  /\ trails' = [i \in 1..Len(trails) |->
                                                  IF i \in moving /\ i < stop
                                                  THEN advance(replaced[i])
                                                  ELSE replaced[i]]
                                  /\ pc' = "panic" /\ fault' = "add_overflow"
                                  /\ stdin' = << >>
                                  /\ UNCHANGED unrendered
                         ELSE /\ trails' = [i \in 1..Len(trails) |->
                                                  IF i \in moving
                                                  THEN advance(replaced[i])
                                                  ELSE replaced[i]]
                              /\ pc' = "render" /\ fault' = fault
                              /\ unrendered' = unrendered + 1
                              /\ UNCHANGED stdin
    /\ UNCHANGED <<inputs, raw, trail_density, frame, cleanup, interpVars>>

\* main.rs:277  render(&mut stdout, &state)?
render ==
    /\ pc = "render"
    /\ LET cells == render_cells(trails)
       IN  \/ \* every write and flush succeeded
              /\ cells = << >> \/ charset_len > 0
              /\ frame' = cells /\ pc' = propagate(FALSE, "read_key") /\ fault' = fault
              /\ unrendered' = 0
              /\ UNCHANGED stdin
           \/ \* a write or flush failed after n cells had been issued
              /\ \E n \in 0..Len(cells) :
                    /\ n > 0 => charset_len > 0
                    /\ frame' = SubSeq(cells, 1, n)
              /\ pc' = propagate(TRUE, "read_key") /\ fault' = "render_error"
              /\ stdin' = IF pc' \in Exits THEN << >> ELSE stdin
              /\ UNCHANGED unrendered
           \/ \* gen_char on an empty charset: gen_range(0..0) panics
              /\ cells # << >> /\ charset_len = 0
              /\ frame' = << >> /\ pc' = "panic" /\ fault' = "empty_charset"
              /\ stdin' = << >>
              /\ UNCHANGED unrendered
    /\ UNCHANGED <<inputs, raw, trail_density, trails, spawned, cleanup, interpVars>>

\* A byte, or the error of a failed read, arrives on stdin.  Nothing but read_key
\* looks at stdin, so what arrived earlier in the iteration is placed here, just
\* before the poll.
key_press ==
    /\ pc = "read_key"
    /\ Len(stdin) < typeahead
    /\ \E item \in {"q", "other", "error"} : stdin' = Append(stdin, item)
    /\ UNCHANGED <<inputs, pc, raw, trail_density, trails, spawned, frame, cleanup,
                   fault, unrendered, interpVars>>

\* main.rs:279-284  read_key, then break on b'q' or sleep and loop
read_key ==
    /\ pc = "read_key"
    /\ LET key == IF stdin = << >> \/ Head(stdin) = "error"
                  THEN "none" ELSE Head(stdin)
       IN  pc' = IF quit_key(key) THEN "cleanup" ELSE "tick"
    /\ stdin' = IF stdin = << >> THEN << >> ELSE Tail(stdin)
    /\ frame' = << >>
    /\ UNCHANGED <<inputs, raw, trail_density, trails, spawned, cleanup, fault,
                   unrendered, interpVars>>

\* main.rs:286  clear_screen(&mut stdout)? after the loop
clear_screen_last ==
    /\ pc = "cleanup"
    /\ \/ cleanup' = "done" /\ pc' = "exit_ok" /\ fault' = fault
       \/ cleanup' = "failed" /\ pc' = "exit_err" /\ fault' = "cleanup_error"
    /\ stdin' = << >>
    /\ UNCHANGED <<inputs, raw, trail_density, trails, spawned, frame, unrendered,
                   interpVars>>

Next ==
    \/ into_raw_mode
    \/ terminal_size
    \/ State_new
    \/ clear_screen_first
    \/ tick
    \/ render
    \/ key_press
    \/ read_key
    \/ clear_screen_last

Spec == Init /\ [][Next]_vars

\* The runs on a terminal whose rows reach the end of a u8.
InitTall == Init /\ term_size[2] + MAX_LEN > 255

\* Those runs, with the program running on: main never stops between two of its
\* steps, and the sleep of main.rs:284 ends.
SpecFair ==
    /\ InitTall /\ [][Next]_vars
    /\ WF_vars(into_raw_mode) /\ WF_vars(terminal_size) /\ WF_vars(State_new)
    /\ WF_vars(clear_screen_first) /\ WF_vars(tick) /\ WF_vars(render)
    /\ WF_vars(read_key) /\ WF_vars(clear_screen_last)

---------------------------------------------------------------------------
(* interpolate on its own *)

Channels == ANSI_RGB_MIN..ANSI_RGB_MAX

\* Start and end colours: every pair of g channels of the colour cube, and the
\* largest u8 beside them; r and b at the ends of the cube.
Colors ==
    { [r |-> r, g |-> g, b |-> b] :
        r \in {ANSI_RGB_MIN, ANSI_RGB_MAX},
        g \in Channels \cup {255},
        b \in {ANSI_RGB_MIN, ANSI_RGB_MAX} }

InitInterp ==
    /\ ic1 \in Colors /\ ic2 \in Colors /\ isteps \in 1..MaxSteps
    /\ iout = << >>
    /\ pc = "interpolate"
    /\ raw = FALSE /\ term_size = <<0, 0>> /\ density_env = << >>
    /\ charset_len = 0 /\ overflow_checks = FALSE /\ trail_density = U32(0)
    /\ trails = << >> /\ spawned = << >> /\ frame = << >>
    /\ cleanup = "none" /\ fault = "none" /\ stdin = << >> /\ unrendered = 0
    /\ typeahead = 0

call_interpolate ==
    /\ pc = "interpolate"
    /\ iout' = interpolate(ic1, ic2, isteps)
    /\ pc' = "returned"
    /\ UNCHANGED <<raw, term_size, density_env, charset_len, overflow_checks,
                   trail_density, trails, spawned, frame, cleanup, fault,
                   stdin, unrendered, typeahead, ic1, ic2, isteps>>

NextInterp == call_interpolate

SpecInterp == InitInterp /\ [][NextInterp]_vars

---------------------------------------------------------------------------
(* Properties *)

\* The driver loop of main.rs:275 was entered.
InLoop ==
    \/ pc \in {"tick", "render", "read_key", "cleanup", "exit_ok"}
    \/ fault \in {"render_error", "cleanup_error", "add_overflow", "empty_charset"}

\* main has a State: State::new returned.
Constructed == InLoop \/ pc = "clear_screen" \/ fault = "clear_error"

\* C1: in every tick, the slots replaced by a fresh random trail are exactly the
\* slots whose trail had bottom.y - length >= height when the tick began.
C1_RespawnExactlyInvisible ==
    [][ (pc = "tick" /\ pc' # "tick" /\ fault' # "empty_range")
          => DOMAIN spawned' =
               { i \in 1..Len(trails) : trails[i].y - trails[i].len >= term_size[2] }
      ]_vars

\* A tick of two trails has replaced one and kept the other.
C1_Witness ==
    /\ pc = "render"
    /\ Len(trails) = 2
    /\ Cardinality(DOMAIN spawned) = 1

\* floor(width * height / density) for the u32 density of the configuration.
ExpectedTrailCount ==
    IF trail_density[1] = 1 THEN 0
    ELSE num_cells(term_size) \div trail_density[2]

C3_SpawnInvariants ==
    /\ \A i \in DOMAIN spawned :
          /\ spawned[i].len \in 3..(MAX_LEN - 1)
          /\ spawned[i].speed \in 1..(MAX_SPEED - 1)
          /\ spawned[i].x \in 1..(term_size[1] - 1)
          /\ spawned[i].y \in 1..(term_size[2] - 1)
    /\ \A i \in DOMAIN trails :
          /\ trails[i].len \in 3..(MAX_LEN - 1)
          /\ trails[i].speed \in 1..(MAX_SPEED - 1)

\* C4: whenever the program has ended after the driver loop was entered, by the quit
\* key, an error of render or any other failure, the clear_screen that follows the
\* loop has been executed.
C4_CleanupOnEveryExit ==
    (pc \in Exits /\ InLoop) => cleanup # "none"

\* C5: the division of State::new is never executed with a density of 0.
C5_DensityNeverZero ==
    fault # "divide_by_zero"

\* The channels of a colour, and whether they are all of the 6-level cube.
Chan(c) == <<c.r, c.g, c.b>>
InCube(c) == \A j \in 1..3 : Chan(c)[j] \in Channels

\* interpolate has returned for arguments the claims C6-C8 cover.
InterpReturned == pc = "returned" /\ InCube(ic1) /\ InCube(ic2)

\* C6: every channel of every colour interpolate returns lies between the start
\* channel and the end channel, inclusive.
C6_WithinEndpoints ==
    InterpReturned =>
        \A k \in DOMAIN iout : \A j \in 1..3 :
            /\ Min(Chan(ic1)[j], Chan(ic2)[j]) <= Chan(iout[k])[j]
            /\ Chan(iout[k])[j] <= Max(Chan(ic1)[j], Chan(ic2)[j])

\* C6, as amended: every channel of every colour interpolate returns lies in the
\* display range 0..5, which clip widens only to include the end channel; it may
\* lie outside the range between the start and the end channel.
C6_WithinDisplayRange ==
    InterpReturned =>
        \A k \in DOMAIN iout : \A j \in 1..3 :
            /\ Min(Chan(ic2)[j], ANSI_RGB_MIN) <= Chan(iout[k])[j]
            /\ Chan(iout[k])[j] <= Max(Chan(ic2)[j], ANSI_RGB_MAX)

\* interpolate has returned a channel that clip cut down to the top of the range,
\* outside the range between its start and its end.
C6_Witness ==
    /\ InterpReturned
    /\ ic1.g = 1 /\ ic2.g = 0 /\ isteps = 3
    /\ iout[3].g = ANSI_RGB_MAX

\* C7: each channel of interpolate's output is monotonic toward the end value:
\* non-increasing when end < start, non-decreasing when end > start, constant
\* when they are equal.
C7_Monotonic ==
    InterpReturned =>
        \A k \in DOMAIN iout : \A j \in 1..3 :
            k > 1 =>
                LET before == Chan(iout[k - 1])[j]
                    after == Chan(iout[k])[j]
                IN  /\ Chan(ic2)[j] < Chan(ic1)[j] => after <= before
                    /\ Chan(ic2)[j] > Chan(ic1)[j] => after >= before
                    /\ Chan(ic2)[j] = Chan(ic1)[j] => after = before

\* The step size the documentation gives: 0 for equal channels, otherwise the
\* floor of (end - start) / steps, 1 when that floor is 0.
StepSize(a, b, steps) ==
    IF a = b THEN 0
    ELSE IF FloorDiv(b - a, steps) = 0 THEN 1 ELSE FloorDiv(b - a, steps)

\* A signed integer clamped into [0, 5].
Clamp(v) == IF v < 0 THEN 0 ELSE IF v > 5 THEN 5 ELSE v

\* C8: the channel at index i is the signed integer start + i * stepSize clamped
\* into [0, 5]; interpolate({0,5,0}, {0,1,0}, 4) has the g values 5, 4, 3, 2.
C8_ClampedArithmetic ==
    /\ InterpReturned =>
          \A k \in DOMAIN iout : \A j \in 1..3 :
              Chan(iout[k])[j] =
                  Clamp(Chan(ic1)[j]
                          + (k - 1) * StepSize(Chan(ic1)[j], Chan(ic2)[j], isteps))
    /\ (pc = "returned" /\ ic1 = PURE_GREEN /\ ic2 = DARK_GREEN /\ isteps = 4) =>
          [k \in 1..4 |-> iout[k].g] = <<5, 4, 3, 2>>

\* C9: interpolate returns exactly `steps` colours, and for equal start and end
\* colours every one of them is that colour.
C9_LengthAndIdentity ==
    pc = "returned" =>
        /\ Len(iout) = isteps
        /\ ic1 = ic2 => \A k \in 1..isteps : iout[k] = ic1

\* interpolate has returned several colours for equal arguments that are neither
\* black nor at an end of the cube.
C9_Witness ==
    /\ pc = "returned"
    /\ ic1 = ic2
    /\ ic1.g \in 1..4
    /\ isteps > 1

\* C10: every cell write render issues targets a row >= 1 and a column in
\* [1, width].
C10_WritesInsideGrid ==
    \A k \in DOMAIN frame :
        /\ frame[k].y >= 1
        /\ frame[k].x \in 1..term_size[1]

\* C11: with density 1 and a 1x1 grid, State::new completes with exactly 1 trail
\* and every tick after it completes.
C11_OneByOneGrid ==
    (term_size = <<1, 1>> /\ density_env = <<U32(1)>> /\ pc # "raw_mode"
        /\ fault \notin {"raw_mode_error", "no_term_size"})
      => /\ pc # "panic"
         /\ pc # "terminal_size" /\ pc # "State_new" => Len(trails) = 1

\* Slot i of the collection has just been respawned by a tick.
Respawned(i) == pc = "render" /\ i \in DOMAIN spawned

\* C12: under repeated ticks, every trail slot is respawned again and again.
C12_EventuallyRespawned ==
    \A i \in 1..2 :
        []<>(pc = "tick") => []<>(i \in DOMAIN trails => Respawned(i))

\* C13: a trail respawned in a tick is advanced in that same tick: when the tick
\* ends, the slot holds the trail Trail::random returned with its speed added to
\* bottom.y, never the raw spawned trail.
C13_RespawnedThenAdvanced ==
    pc = "render" =>
        \A i \in DOMAIN spawned :
            /\ trails[i].y = spawned[i].y + spawned[i].speed
            /\ trails[i].y # spawned[i].y
            /\ trails[i].x = spawned[i].x
            /\ trails[i].len = spawned[i].len
            /\ trails[i].speed = spawned[i].speed

\* A tick has respawned the second of two trails and left the first.
C13_Witness ==
    /\ pc = "render"
    /\ Len(trails) = 2
    /\ DOMAIN spawned = {2}

\* C14: in every tick, each trail that was not respawned ends the tick with its
\* previous bottom.y plus its speed, as an exact integer sum, the tick not
\* failing, and with its x, length and speed unchanged.
C14_ExactAdvance ==
    [][ pc = "tick" =>
          /\ pc' # "panic"
          /\ \A i \in (1..Len(trails)) \ DOMAIN spawned' :
                trails'[i] = [trails[i] EXCEPT !.y = trails[i].y + trails[i].speed]
      ]_vars

\* C15: no trail is advanced while it is not visible, so in every state every
\* trail has bottom.y - length < height + MAX_SPEED - 1.
C15_NeverDecaysFurther ==
    \A i \in DOMAIN trails :
        trails[i].y - trails[i].len < term_size[2] + MAX_SPEED - 1

\* A trail has passed the bottom by as much as one advance allows: it is not
\* visible, one row short of the bound.
C15_Witness ==
    /\ pc = "read_key"
    /\ \E i \in DOMAIN trails :
          trails[i].y - trails[i].len = term_size[2] + MAX_SPEED - 2

\* C16: the poll of an iteration never waits and takes at most one pending byte
\* off stdin, the other steps of the iteration taking none; the poll ends the
\* loop exactly when that byte is 'q', and once the loop has ended no tick or
\* render follows; on any other byte, or none, the trails and the density are
\* unchanged and the loop goes on with the next tick.
C16_PollOneByte ==
    [][ /\ (pc = "read_key" /\ pc' # "read_key") =>
              /\ stdin' = IF stdin = << >> THEN << >> ELSE Tail(stdin)
              /\ pc' = "cleanup" <=> (stdin # << >> /\ Head(stdin) = "q")
              /\ pc' # "cleanup" => pc' = "tick"
              /\ trails' = trails /\ trail_density' = trail_density
              /\ term_size' = term_size
        /\ (pc \in {"tick", "render"} /\ pc' \notin Exits) => stdin' = stdin
        /\ pc \in {"cleanup"} \cup Exits => pc' \notin {"tick", "render", "read_key"}
      ]_vars

\* The poll has taken a byte that is not 'q' and left the 'q' typed after it,
\* and the loop has gone on.
C16_Witness ==
    /\ pc = "tick"
    /\ stdin = <<"q">>
    /\ trails # << >>

\* C17: render never changes the trails, the density or the grid size; when a
\* write of a frame fails, main returns the error, the frame holds only the cells
\* written before the failure, in order, and nothing runs afterwards, so the
\* trails stay exactly what the preceding tick left.
C17_RenderReadsOnly ==
    [][ /\ pc = "render" =>
              /\ trails' = trails /\ trail_density' = trail_density
              /\ term_size' = term_size
        /\ (pc = "render" /\ fault' = "render_error") =>
              /\ pc' = "exit_err"
              /\ LET cells == render_cells(trails)
                 IN  /\ Len(frame') <= Len(cells)
                     /\ frame' = SubSeq(cells, 1, Len(frame'))
        /\ fault = "render_error" => FALSE
      ]_vars

\* A write failed in the middle of a frame: some of its cells were written, not
\* all, and main has returned the error.
C17_Witness ==
    /\ pc = "exit_err" /\ fault = "render_error"
    /\ 0 < Len(frame) /\ Len(frame) < Len(render_cells(trails))

\* C18: every colour written in a frame has its three channels in 0..5, and for
\* every trail the gradient from PURE_GREEN to DARK_GREEN has exactly one colour,
\* with channels in 0..5, for each offset 0..len-1 that Trail::render indexes.
C18_GradientFitsTrail ==
    /\ \A k \in DOMAIN frame : InCube(frame[k].color)
    /\ \A i \in DOMAIN trails :
          LET interpolates == interpolate(PURE_GREEN, DARK_GREEN, AsU8(trails[i].len))
          IN  /\ trails[i].len \in 3..(MAX_LEN - 1)
              /\ DOMAIN interpolates = 1..trails[i].len
              /\ \A k \in DOMAIN interpolates : InCube(interpolates[k])

\* A trail of the greatest length, MAX_LEN - 1, has been drawn whole; at offset 6
\* its green channel, 5 - 6 before the cast, was written as 5.
C18_Witness ==
    /\ pc = "read_key"
    /\ Len(trails) = 1 /\ trails[1].len = MAX_LEN - 1
    /\ Len(frame) = MAX_LEN - 1
    /\ frame[7].color = PURE_GREEN

\* C19: at the end of every tick each trail respawned in it, already advanced,
\* is visible (bottom.y - length < height), and no slot respawned in a tick was
\* respawned in the tick before it.
C19_RespawnedStaysVisible ==
    [][ (pc = "tick" /\ pc' = "render") =>
          /\ \A i \in DOMAIN spawned' :
                trails'[i].y - trails'[i].len < term_size[2]
          /\ DOMAIN spawned \cap DOMAIN spawned' = {}
      ]_vars

\* A tick has respawned a trail on the lowest row drawn, with the least length
\* and the greatest speed: after its advance its top is two rows above the
\* height.
C19_Witness ==
    /\ pc = "render"
    /\ \E i \in DOMAIN spawned :
          /\ spawned[i].len = 3 /\ spawned[i].speed = MAX_SPEED - 1
          /\ trails[i].y - trails[i].len = term_size[2] - 2

\* C20: in the loop tick and render alternate, starting with a tick: a render
\* runs right after a tick and with exactly one tick done since the last frame
\* rendered, a tick runs with none, the step after the first clear_screen is a
\* tick, and the poll of a frame runs only right after that frame's render
\* returned without an error.
C20_TickRenderAlternate ==
    [][ /\ (pc = "clear_screen" /\ pc' \notin Exits) => pc' = "tick"
        /\ (pc = "tick" /\ pc' # "tick") => unrendered = 0
        /\ (pc' = "render" /\ pc # "render") => pc = "tick"
        /\ (pc = "render" /\ pc' # "render") => unrendered = 1
        /\ (pc' = "read_key" /\ pc # "read_key") =>
              pc = "render" /\ fault' = "none" /\ unrendered' = 0
        /\ (pc = "read_key" /\ pc' # "read_key") => unrendered = 0 /\ fault = "none"
        /\ (pc' = "tick" /\ pc # "tick") => pc \in {"clear_screen", "read_key"}
      ]_vars

\* Several iterations in, a frame drawn after a tick that respawned the first
\* of two trails is being polled for.
C20_Witness ==
    /\ pc = "read_key"
    /\ unrendered = 0 /\ fault = "none"
    /\ Len(trails) = 2 /\ DOMAIN spawned = {1}
    /\ frame = render_cells(trails)

============================================================================
